---- MODULE Spec2Model ----
(***************************************************************************)
(* A model of the example programs of rust_structs_enums: the coin and     *)
(* Option matches of enums_and_patterns.rs, the Rectangle programs of      *)
(* example.rs and the Point borrow of main.rs.  One example runs at a      *)
(* time: prog names it, pc is its position, and the other variables hold   *)
(* its locals, its call stack, its output, its heap and, for the snippets  *)
(* that are about ownership, the borrow checker's permissions and errors.  *)
(***************************************************************************)
EXTENDS Integers, Sequences, FiniteSets, TLC

VARIABLES
    prog,      \* the example being run
    pc,        \* its position
    build,     \* "debug" (overflow checks on) or "release" (wrapping)
    locals,    \* the locals of the running function, by their source names
    arm,       \* the match arm being compared (1-based)
    ret,       \* the value the call returned
    out,       \* the lines printed so far
    stack,     \* plus_one's call stack, innermost frame last
    heap,      \* heap strings: label -> [live, frees]
    stmts,     \* the statements of the snippet the borrow checker is given
    at,        \* the statement being checked or run (1-based)
    perms,     \* place -> the permissions (R, W, O) it has before statement `at`
    moved,     \* the places moved out of so far
    errors     \* the errors reported so far: <<statement, code>>

vars == <<prog, pc, build, locals, arm, ret, out, stack, heap,
          stmts, at, perms, moved, errors>>

\* The borrow checker's state, which the examples that are only run leave alone.
checker == <<stmts, at, perms, moved, errors>>

(***************************************************************************)
(* Values.  Every value is a record with a tag, so that values of          *)
(* different types can be compared.                                        *)
(***************************************************************************)
Unit == [tag |-> "unit"]
NoValue == [tag |-> "none_yet"]
U8(n) == [tag |-> "u8", val |-> n]
Variant(name) == [tag |-> name]
Panic(m) == [tag |-> "panic", msg |-> m]

Builds == {"debug", "release"}

\* enum Coin
Coin == {Variant("Penny"), Variant("Nickel"), Variant("Dime"), Variant("Quarter")}

\* A pattern that names a variant matches the values of that variant.
Matches(pat, v) == v.tag = pat

\* value_in_cents with the values of Nickel and Dime exchanged.
value_in_cents_arms_swapped ==
    << [pat |-> "Penny",   print |-> << >>, val |-> U8(1)],
       [pat |-> "Nickel",  print |-> << >>, val |-> U8(10)],
       [pat |-> "Dime",    print |-> << >>, val |-> U8(5)],
       [pat |-> "Quarter", print |-> << >>, val |-> U8(25)] >>

\* fn value_in_cents: the arms of its match, in source order
value_in_cents_arms ==
    << [pat |-> "Penny",   print |-> << >>, val |-> U8(1)],
       [pat |-> "Nickel",  print |-> << >>, val |-> U8(5)],
       [pat |-> "Dime",    print |-> << >>, val |-> U8(10)],
       [pat |-> "Quarter", print |-> << >>, val |-> U8(25)] >>

\* fn value_in_cents2: the Penny arm is the block { println!("Lucky Penny!"); },
\* which ends in a statement and so has the value ().
value_in_cents2_arms ==
    << [pat |-> "Penny",   print |-> << "Lucky Penny!" >>, val |-> Unit],
       [pat |-> "Nickel",  print |-> << >>, val |-> U8(5)],
       [pat |-> "Dime",    print |-> << >>, val |-> U8(10)],
       [pat |-> "Quarter", print |-> << >>, val |-> U8(25)] >>

CoinArms(p) == IF p = "value_in_cents" THEN value_in_cents_arms
               ELSE value_in_cents2_arms

CoinProgs == {"value_in_cents", "value_in_cents2"}

EmptyHeap == [a \in {} |-> 0]

NoPerms == [a \in {} |-> {}]

\* An example that is run, not borrow-checked.
NoChecker ==
    /\ stmts = << >>
    /\ at = 0
    /\ perms = NoPerms
    /\ moved = {}
    /\ errors = {}

InitCoin ==
    /\ prog \in CoinProgs
    /\ pc = "match"
    /\ build \in Builds
    /\ locals \in {[coin |-> c] : c \in Coin}
    /\ arm = 1
    /\ ret = NoValue
    /\ out = << >>
    /\ stack = << >>
    /\ heap = EmptyHeap
    /\ NoChecker

\* One comparison of the match in value_in_cents / value_in_cents2: the value is
\* compared with the pattern of arm `arm`; on a match the arm's code runs and its
\* value is the value of the match (and of the function), otherwise the next arm
\* is compared.
MatchCoin ==
    /\ prog \in CoinProgs
    /\ pc = "match"
    /\ arm <= Len(CoinArms(prog))
    /\ LET a == CoinArms(prog)[arm] IN
         IF Matches(a.pat, locals.coin)
         THEN /\ out' = out \o a.print
              /\ ret' = a.val
              /\ pc' = "returned"
              /\ arm' = arm
         ELSE /\ arm' = arm + 1
              /\ UNCHANGED <<out, ret, pc>>
    /\ UNCHANGED <<prog, build, locals, stack, heap, checker>>

(***************************************************************************)
(* plus_one (enums_and_patterns.rs, first definition).  Its body is the    *)
(* match, used as a statement, followed by                                 *)
(*     let five = Some(5); let six = plus_one(five);                       *)
(*     let none = plus_one(None);                                          *)
(* and it ends without a tail expression.  The calls are calls of plus_one *)
(* itself, so the function is run on a call stack.                         *)
(***************************************************************************)
I32Max == 2147483647
I32Min == (-I32Max) - 1

\* The depth at which the call stack is exhausted.
MaxDepth == 4

None_ == [tag |-> "None"]
Some(i) == [tag |-> "Some", val |-> i]
Uninit == [tag |-> "uninit"]

\* i + 1 on i32: an overflow panics with overflow checks on and wraps without.
AddOneI32(i, b) ==
    IF i = I32Max
    THEN IF b = "debug" THEN Panic("attempt to add with overflow") ELSE Some(I32Min)
    ELSE Some(i + 1)

\* match x { None => None, Some(i) => Some(i + 1), }
plus_one_arms ==
    << [pat |-> "None", expr |-> "None"],
       [pat |-> "Some", expr |-> "Some(i + 1)"] >>

\* The code of a plus_one arm, run with x bound by the pattern.
ArmValue(a, x, b) ==
    IF a.expr = "None" THEN None_ ELSE AddOneI32(x.val, b)

\* The frame of a fresh call plus_one(x).
Frame(x) ==
    [x |-> x, pc |-> "match", arm |-> 1, m |-> Uninit,
     five |-> Uninit, six |-> Uninit, none |-> Uninit]

\* The caller's frame once its pending call has returned v.
Resume(f, v) ==
    IF f.pc = "let_six"
    THEN [f EXCEPT !.six = v, !.pc = "let_none"]
    ELSE [f EXCEPT !.none = v, !.pc = "end"]

SetTop(s, f) == [s EXCEPT ![Len(s)] = f]
Pop(s) == SubSeq(s, 1, Len(s) - 1)

\* One step of the innermost call of plus_one: the next stack, the state of the
\* run and the value returned to the outside caller.
PlusOneStep(s, b) ==
    LET f == s[Len(s)]
        run(t) == [stack |-> t, pc |-> "running", ret |-> NoValue]
    IN  CASE f.pc = "match" ->
               IF f.arm > Len(plus_one_arms)
               THEN [stack |-> s, pc |-> "no_arm", ret |-> NoValue]
               ELSE IF Matches(plus_one_arms[f.arm].pat, f.x)
               THEN LET v == ArmValue(plus_one_arms[f.arm], f.x, b) IN
                      IF v.tag = "panic"
                      THEN [stack |-> s, pc |-> "panicked", ret |-> v]
                      ELSE run(SetTop(s, [f EXCEPT !.m = v, !.pc = "let_five"]))
               ELSE run(SetTop(s, [f EXCEPT !.arm = f.arm + 1]))
          [] f.pc = "let_five" ->
               run(SetTop(s, [f EXCEPT !.five = Some(5), !.pc = "let_six"]))
          [] f.pc = "let_six" ->
               IF Len(s) >= MaxDepth
               THEN [stack |-> s, pc |-> "stack_overflow", ret |-> NoValue]
               ELSE run(Append(s, Frame(f.five)))
          [] f.pc = "let_none" ->
               IF Len(s) >= MaxDepth
               THEN [stack |-> s, pc |-> "stack_overflow", ret |-> NoValue]
               ELSE run(Append(s, Frame(None_)))
          [] OTHER ->  \* "end": the body ends in a let statement: the value is ()
               IF Len(s) = 1
               THEN [stack |-> << >>, pc |-> "returned", ret |-> Unit]
               ELSE run(SetTop(Pop(s), Resume(s[Len(s) - 1], Unit)))

\* The arguments plus_one is called with from outside.
PlusOneArgs == {None_, Some(5), Some(0), Some(-1), Some(I32Max)}

InitPlusOne ==
    /\ prog = "plus_one"
    /\ pc = "running"
    /\ build \in Builds
    /\ locals \in {[x |-> x] : x \in PlusOneArgs}
    /\ arm = 1
    /\ ret = NoValue
    /\ out = << >>
    /\ stack = << Frame(locals.x) >>
    /\ heap = EmptyHeap
    /\ NoChecker

PlusOne ==
    /\ prog = "plus_one"
    /\ pc = "running"
    /\ LET n == PlusOneStep(stack, build) IN
         /\ stack' = n.stack
         /\ pc' = n.pc
         /\ ret' = n.ret
    /\ UNCHANGED <<prog, build, locals, arm, out, heap, checker>>

(***************************************************************************)
(* Rectangles (example.rs).  A u32 the program multiplies is kept as four  *)
(* base-256 limbs, least significant first, so that a product beyond 2^32  *)
(* is computed exactly; the widths and heights that are only compared are  *)
(* plain numbers.                                                          *)
(***************************************************************************)
Base == 2^8
Limbs == 4

\* The limbs of n, for 0 <= n < 2^31.
U32(n) == [i \in 1..Limbs |-> (n \div (Base^(i - 1))) % Base]
U32Max == [i \in 1..Limbs |-> Base - 1]
U32Val(l) == [tag |-> "u32", limbs |-> l]

RECURSIVE ColSum(_, _, _, _)
\* The sum of the limb products a[i] * b[j] of weight Base^(k-1), from limb i on.
ColSum(a, b, k, i) ==
    IF i > Limbs THEN 0
    ELSE (IF (k + 1 - i) \in 1..Limbs THEN a[i] * b[k + 1 - i] ELSE 0)
         + ColSum(a, b, k, i + 1)

RECURSIVE Digits(_, _, _, _)
\* The limbs i..2*Limbs of the product, given the carry into limb i.
Digits(a, b, i, carry) ==
    IF i > 2 * Limbs THEN << >>
    ELSE LET t == ColSum(a, b, i, 1) + carry
         IN  << t % Base >> \o Digits(a, b, i + 1, t \div Base)

\* The exact product of two u32, as 2 * Limbs limbs.
MulWide(a, b) == Digits(a, b, 1, 0)

Low(p) == SubSeq(p, 1, Limbs)
High(p) == SubSeq(p, Limbs + 1, 2 * Limbs)
Zero == [i \in 1..Limbs |-> 0]

\* area with the product narrowed to its low 16 bits.
area_narrow(width, height, b) ==
    LET p == MulWide(width, height) IN U32Val(<<p[1], p[2], 0, 0>>)

\* fn area(width: u32, height: u32) -> u32 { width * height }
\* u32 `*`: an overflow panics with overflow checks on and wraps without.
area(width, height, b) ==
    LET p == MulWide(width, height) IN
      IF High(p) # Zero /\ b = "debug"
      THEN Panic("attempt to multiply with overflow")
      ELSE U32Val(Low(p))

AreaArgs == {U32(0), U32(1), U32(30), U32(50), U32(65535), U32(65536), U32Max}

InitArea ==
    /\ prog = "area"
    /\ pc = "call"
    /\ build \in Builds
    /\ locals \in {[width |-> w, height |-> h] : w \in AreaArgs, h \in AreaArgs}
    /\ arm = 1
    /\ ret = NoValue
    /\ out = << >>
    /\ stack = << >>
    /\ heap = EmptyHeap
    /\ NoChecker

Area ==
    /\ prog = "area"
    /\ pc = "call"
    /\ ret' = area(locals.width, locals.height, build)
    /\ pc' = IF ret'.tag = "panic" THEN "panicked" ELSE "returned"
    /\ UNCHANGED <<prog, build, locals, arm, out, stack, heap, checker>>

Bool(v) == [tag |-> "bool", b |-> v]
Rect(w, h) == [width |-> w, height |-> h]

\* can_hold with >= for >.
can_hold_ge(self, other) ==
    self.width >= other.width /\ self.height >= other.height

\* impl Rectangle6 { fn can_hold(&self, other: Rectangle6) -> bool }
Rectangle6_can_hold(self, other) ==
    self.width > other.width /\ self.height > other.height

\* impl Rectangle { fn can_hold(&self, other: &Rectangle) -> bool }
Rectangle_can_hold(self, other) ==
    self.width > other.width /\ self.height > other.height

CanHoldProgs == {"Rectangle6::can_hold", "Rectangle::can_hold"}

\* The dimensions of main8's rect1, rect2 and rect3.
CanHoldDims == {10, 30, 40, 45, 50, 60}

InitCanHold ==
    /\ prog \in CanHoldProgs
    /\ pc = "call"
    /\ build \in Builds
    /\ locals \in {[self |-> Rect(w1, h1), other |-> Rect(w2, h2)] :
                     w1 \in CanHoldDims, h1 \in CanHoldDims,
                     w2 \in CanHoldDims, h2 \in CanHoldDims}
    /\ arm = 1
    /\ ret = NoValue
    /\ out = << >>
    /\ stack = << >>
    /\ heap = EmptyHeap
    /\ NoChecker

CanHold ==
    /\ prog \in CanHoldProgs
    /\ pc = "call"
    /\ ret' = Bool(IF prog = "Rectangle6::can_hold"
                   THEN Rectangle6_can_hold(locals.self, locals.other)
                   ELSE Rectangle_can_hold(locals.self, locals.other))
    /\ pc' = "returned"
    /\ UNCHANGED <<prog, build, locals, arm, out, stack, heap, checker>>

\* u32::max
MaxU32(a, b) == IF a >= b THEN a ELSE b

\* max that takes the larger width and keeps the height of self.
max_width_only(self, other) ==
    Rect(MaxU32(self.width, other.width), self.height)

\* impl Rectangle { fn max(self, other: Rectangle) -> Rectangle }
max(self, other) ==
    Rect(MaxU32(self.width, other.width), MaxU32(self.height, other.height))

SetToMaxProgs == {"set_to_max", "set_to_max_copy"}

\* The dimensions of example_main (0x1, 1x0) and of main (9x9, 16x16).
MaxDims == {0, 1, 9, 16}

\* self is the caller's rect; lit keeps the struct literal rect was built from.
InitSetToMax ==
    /\ prog \in SetToMaxProgs
    /\ pc = "call"
    /\ build \in Builds
    /\ locals \in {[lit |-> Rect(w1, h1), self |-> Rect(w1, h1),
                    other |-> Rect(w2, h2), max |-> Uninit] :
                     w1 \in MaxDims, h1 \in MaxDims, w2 \in MaxDims, h2 \in MaxDims}
    /\ arm = 1
    /\ ret = NoValue
    /\ out = << >>
    /\ stack = << >>
    /\ heap = EmptyHeap
    /\ NoChecker

\* set_to_max, first statement: let max = self.max(other);
SetToMaxLet ==
    /\ prog = "set_to_max"
    /\ pc = "call"
    /\ locals' = [locals EXCEPT !.max = max(locals.self, locals.other)]
    /\ pc' = "assign"
    /\ UNCHANGED <<prog, build, arm, ret, out, stack, heap, checker>>

\* set_to_max, second statement: *self = max; the Rectangle written over owns no
\* heap data, so dropping it frees nothing.
SetToMaxAssign ==
    /\ prog = "set_to_max"
    /\ pc = "assign"
    /\ locals' = [locals EXCEPT !.self = locals.max]
    /\ ret' = Unit
    /\ pc' = "returned"
    /\ UNCHANGED <<prog, build, arm, out, stack, heap, checker>>

\* set_to_max of the Copy Rectangle: *self = self.max(other);
SetToMaxCopy ==
    /\ prog = "set_to_max_copy"
    /\ pc = "call"
    /\ locals' = [locals EXCEPT !.self = max(locals.self, locals.other)]
    /\ ret' = Unit
    /\ pc' = "returned"
    /\ UNCHANGED <<prog, build, arm, out, stack, heap, checker>>

(***************************************************************************)
(* The Rectangle that owns `name: String`, and the simulated run of main   *)
(* with the set_to_max the compiler rejects.  heap maps the label of each  *)
(* string allocated so far to whether it is live and how often it was      *)
(* freed.                                                                  *)
(***************************************************************************)
NamedRect(w, h, n) == [width |-> w, height |-> h, name |-> n]

\* String::from: a fresh heap string under label l
Alloc(h, l) ==
    [a \in DOMAIN h \cup {l} |->
        IF a = l THEN [live |-> TRUE, frees |-> 0] ELSE h[a]]

\* The deallocation of string l.
Free(h, l) == [h EXCEPT ![l] = [live |-> FALSE, frees |-> @.frees + 1]]

\* fn max(self, other: Self) -> Self: the Rectangle it returns
max_named(self, other) ==
    NamedRect(MaxU32(self.width, other.width),
              MaxU32(self.height, other.height), "max")

\* max as if it borrowed self: only other is dropped when it returns.
max_named_drops_other(self, other) == << other.name >>

\* max takes self and other by value: both are dropped when it returns, and
\* with them the strings these labels name.
max_named_drops(self, other) == << self.name, other.name >>

RECURSIVE FreeAll(_, _)
FreeAll(h, ls) == IF ls = << >> THEN h ELSE FreeAll(Free(h, Head(ls)), Tail(ls))

\* What a double free can lead to: the allocator aborts the process, or the
\* run goes on with a corrupted heap.
DoubleFreeOutcomes == {"aborted", "assign"}

InitNamed ==
    /\ prog = "main_set_to_max_named"
    /\ pc = "let_r1"
    /\ build \in Builds
    /\ locals \in {[r1 |-> Uninit, r2 |-> Uninit, max |-> Uninit,
                    d1 |-> Rect(w1, h1), d2 |-> Rect(w2, h2)] :
                     w1 \in {9, 16}, h1 \in {9, 16}, w2 \in {9, 16}, h2 \in {9, 16}}
    /\ arm = 1
    /\ ret = NoValue
    /\ out = << >>
    /\ stack = << >>
    /\ heap = EmptyHeap
    /\ NoChecker

\* let mut r1 = Rectangle { width, height, name: String::from("r1") };
NamedLetR1 ==
    /\ prog = "main_set_to_max_named"
    /\ pc = "let_r1"
    /\ heap' = Alloc(heap, "r1")
    /\ locals' = [locals EXCEPT
                    !.r1 = NamedRect(locals.d1.width, locals.d1.height, "r1")]
    /\ pc' = "let_r2"
    /\ UNCHANGED <<prog, build, arm, ret, out, stack, checker>>

\* let r2 = Rectangle { width, height, name: String::from("r2") };
NamedLetR2 ==
    /\ prog = "main_set_to_max_named"
    /\ pc = "let_r2"
    /\ heap' = Alloc(heap, "r2")
    /\ locals' = [locals EXCEPT
                    !.r2 = NamedRect(locals.d2.width, locals.d2.height, "r2")]
    /\ pc' = "let_max"
    /\ UNCHANGED <<prog, build, arm, ret, out, stack, checker>>

\* r1.set_to_max(r2), first statement: let max = self.max(other); with self a
\* reference to r1 and other the moved r2.
NamedLetMax ==
    /\ prog = "main_set_to_max_named"
    /\ pc = "let_max"
    /\ locals' = [locals EXCEPT !.max = max_named(locals.r1, locals.r2)]
    /\ heap' = FreeAll(Alloc(heap, "max"), max_named_drops(locals.r1, locals.r2))
    /\ pc' = "drop"
    /\ UNCHANGED <<prog, build, arm, ret, out, stack, checker>>

\* drop(*self): frees (*self).name, that is r1.name.  When that string is no
\* longer live this is a double free, which is undefined behaviour.
NamedDrop ==
    /\ prog = "main_set_to_max_named"
    /\ pc = "drop"
    /\ heap' = Free(heap, locals.r1.name)
    /\ IF heap[locals.r1.name].live
       THEN pc' = "assign"
       ELSE pc' \in DoubleFreeOutcomes
    /\ UNCHANGED <<prog, build, locals, arm, ret, out, stack, checker>>

\* *self = max;
NamedAssign ==
    /\ prog = "main_set_to_max_named"
    /\ pc = "assign"
    /\ locals' = [locals EXCEPT !.r1 = locals.max]
    /\ pc' = "end_main"
    /\ UNCHANGED <<prog, build, arm, ret, out, stack, heap, checker>>

\* The end of main: r1 goes out of scope and is dropped; r2 was moved.
NamedEndMain ==
    /\ prog = "main_set_to_max_named"
    /\ pc = "end_main"
    /\ heap' = Free(heap, locals.r1.name)
    /\ ret' = Unit
    /\ pc' = "returned"
    /\ UNCHANGED <<prog, build, locals, arm, out, stack, checker>>

(***************************************************************************)
(* Methods and ownership (example.rs) and the borrowed field of a Point    *)
(* (main.rs).  These snippets are given to the borrow checker, which goes  *)
(* through the statements in order: a statement needs permissions on the   *)
(* places it uses, an error is reported for each one that is missing, and  *)
(* the snippet is run only when no error was reported.  A snippet is its   *)
(* let binding followed by at most MaxStmts statements.                    *)
(***************************************************************************)
MaxStmts == 3

\* rect.area(), rect.set_width(1), let max_rect = rect.max(other_rect),
\* let rect_ref = &rect, rect_ref.area(), rect_ref.set_width(2)
MethodStmts == {"area", "set_width", "max", "ref", "ref_area", "ref_set_width"}

\* let x = &mut p.x, print_point(&p), *x += 1, println!("{}, {}", p.x, p.y)
PointStmts == {"borrow_x", "print_point", "inc_x", "print_fields"}

CheckedProgs == {"methods", "point"}

\* The statement that declares the snippet's reference, and those that use it.
RefDecl(p) == IF p = "methods" THEN "ref" ELSE "borrow_x"
RefUses(p) == IF p = "methods" THEN {"ref_area", "ref_set_width"} ELSE {"inc_x"}

\* The reference is declared before statement i.
Declared(p, s, i) == \E k \in 1..(i - 1) : s[k] = RefDecl(p)

\* A borrow that lasts to the end of the scope, whether used again or not.
Live_lexical(p, s, i) == Declared(p, s, i)

\* The reference in scope before statement i is used at or after statement i:
\* its borrow is live there.
Live(p, s, i) ==
    /\ Declared(p, s, i)
    /\ \E j \in i..Len(s) :
          /\ s[j] \in RefUses(p)
          /\ \A k \in i..(j - 1) : s[k] # RefDecl(p)

WellScoped(p, s) == \A j \in 1..Len(s) : s[j] \in RefUses(p) => Declared(p, s, j)

Bodies(K) == UNION {[1..n -> K] : n \in 0..MaxStmts}

Snippets(p) ==
    IF p = "methods"
    THEN {<<l>> \o b : l \in {"let rect", "let mut rect"}, b \in Bodies(MethodStmts)}
    ELSE {<<"let mut p">> \o b : b \in Bodies(PointStmts)}

IsMut(s) == s[1] \in {"let mut rect", "let mut p"}

RWO == {"R", "W", "O"}

\* The permissions of each place before statement i, with the places in mv moved:
\* an owned binding has R and O, and W when declared mut; a moved place has none;
\* a place borrowed by a live shared reference keeps R only; while p.x is mutably
\* borrowed p and p.x have none and p.y keeps its own.
PermsAt(p, s, i, mv) ==
    IF p = "methods"
    THEN [pl \in {"rect", "other_rect", "*rect_ref"} |->
            CASE i = 1 -> {}
              [] pl = "rect" ->
                   IF "rect" \in mv THEN {}
                   ELSE IF Live(p, s, i) THEN {"R"}
                   ELSE IF IsMut(s) THEN RWO ELSE {"R", "O"}
              [] pl = "other_rect" ->
                   IF "other_rect" \in mv THEN {} ELSE {"R", "O"}
              [] OTHER -> IF Live(p, s, i) THEN {"R"} ELSE {}]
    ELSE [pl \in {"p", "p.x", "p.y", "*x"} |->
            CASE i = 1 -> {}
              [] pl \in {"p", "p.x"} -> IF Live(p, s, i) THEN {} ELSE RWO
              [] pl = "p.y" -> RWO
              [] OTHER -> IF Live(p, s, i) THEN {"R", "W"} ELSE {}]

\* Every method as if it took &self: a statement needs R only.
Needs_read_only(st) ==
    CASE st \in {"area", "set_width", "max", "ref"} -> {<<"rect", "R">>}
      [] st \in {"ref_area", "ref_set_width"} -> {<<"*rect_ref", "R">>}
      [] st = "borrow_x" -> {<<"p.x", "R">>}
      [] st = "print_point" -> {<<"p", "R">>}
      [] st = "inc_x" -> {<<"*x", "R">>}
      [] st = "print_fields" -> {<<"p.x", "R">>, <<"p.y", "R">>}
      [] OTHER -> {}

\* The permissions a statement needs: <<place, permission>>.  area takes &self,
\* set_width takes &mut self, max takes self and other by value.
Needs(st) ==
    CASE st = "area" -> {<<"rect", "R">>}
      [] st = "set_width" -> {<<"rect", "R">>, <<"rect", "W">>}
      [] st = "max" -> {<<"rect", "R">>, <<"rect", "O">>,
                        <<"other_rect", "R">>, <<"other_rect", "O">>}
      [] st = "ref" -> {<<"rect", "R">>}
      [] st = "ref_area" -> {<<"*rect_ref", "R">>}
      [] st = "ref_set_width" -> {<<"*rect_ref", "R">>, <<"*rect_ref", "W">>}
      [] st = "borrow_x" -> {<<"p.x", "R">>, <<"p.x", "W">>}
      [] st = "print_point" -> {<<"p", "R">>}
      [] st = "inc_x" -> {<<"*x", "R">>, <<"*x", "W">>}
      [] st = "print_fields" -> {<<"p.x", "R">>, <<"p.y", "R">>}
      [] OTHER -> {}

Missing(st, pm) == {n \in Needs(st) : n[2] \notin pm[n[1]]}

\* The error reported for a missing permission, by what took the permission away:
\* E0382 a moved value is used, E0596 a mutable borrow of what is not declared mut
\* or is behind a & reference, E0505 a move out of a borrowed value, E0502 a
\* borrow that conflicts with a live borrow.
Cause(n, s, mv) ==
    IF n[1] \in mv THEN "E0382"
    ELSE IF n[1] = "*rect_ref" THEN "E0596"
    ELSE IF n[2] = "W" /\ ~IsMut(s) THEN "E0596"
    ELSE IF n[2] = "O" THEN "E0505"
    ELSE "E0502"

\* max as if it took &self and &other: nothing is moved.
Moves_nothing(st) == {}

\* The places a statement moves out of.
Moves(st) == IF st = "max" THEN {"rect", "other_rect"} ELSE {}

\* impl Rectangle { fn area(&self) -> u32 }
Rectangle_area(self) == self.width * self.height

\* impl Rectangle { fn set_width(&mut self, width: u32) }
set_width(self, width) == [self EXCEPT !.width = width]

\* The effect of running a statement on the locals and on the output.
Exec(st, l, o) ==
    CASE st \in {"let rect", "let mut rect"} ->
           [locals |-> [l EXCEPT !.rect = Rect(0, 0), !.other_rect = Rect(1, 1)],
            out |-> o]
      [] st \in {"area", "ref_area"} ->
           [locals |-> l, out |-> Append(o, Rectangle_area(l.rect))]
      [] st = "set_width" ->
           [locals |-> [l EXCEPT !.rect = set_width(l.rect, 1)], out |-> o]
      [] st = "ref_set_width" ->
           [locals |-> [l EXCEPT !.rect = set_width(l.rect, 2)], out |-> o]
      [] st = "max" ->
           [locals |-> [l EXCEPT !.max_rect = max(l.rect, l.other_rect)], out |-> o]
      [] st = "let mut p" ->
           [locals |-> [l EXCEPT !.p = [x |-> 0, y |-> 0]], out |-> o]
      [] st = "inc_x" ->
           [locals |-> [l EXCEPT !.p.x = l.p.x + 1], out |-> o]
      [] st \in {"print_point", "print_fields"} ->
           [locals |-> l, out |-> Append(o, <<l.p.x, l.p.y>>)]
      [] OTHER -> [locals |-> l, out |-> o]  \* let rect_ref = &rect; let x = &mut p.x

InitChecked ==
    /\ prog \in CheckedProgs
    /\ pc = "check"
    /\ build \in Builds
    /\ locals = IF prog = "methods"
                THEN [rect |-> Uninit, other_rect |-> Uninit, max_rect |-> Uninit]
                ELSE [p |-> Uninit]
    /\ arm = 1
    /\ ret = NoValue
    /\ out = << >>
    /\ stack = << >>
    /\ heap = EmptyHeap
    /\ stmts \in {s \in Snippets(prog) : WellScoped(prog, s)}
    /\ at = 1
    /\ perms = PermsAt(prog, stmts, 1, {})
    /\ moved = {}
    /\ errors = {}

\* The borrow checker on statement `at`; after the last statement the snippet is
\* accepted when no error was reported and rejected otherwise.
BorrowCheck ==
    /\ prog \in CheckedProgs
    /\ pc = "check"
    /\ errors' = errors \cup
                   {<<at, Cause(n, stmts, moved)>> : n \in Missing(stmts[at], perms)}
    /\ moved' = moved \cup Moves(stmts[at])
    /\ perms' = PermsAt(prog, stmts, at + 1, moved')
    /\ IF at < Len(stmts)
       THEN /\ at' = at + 1
            /\ pc' = "check"
       ELSE /\ at' = 1
            /\ pc' = IF errors' = {} THEN "run" ELSE "rejected"
    /\ UNCHANGED <<prog, build, locals, arm, ret, out, stack, heap, stmts>>

\* One statement of an accepted snippet is run.
Run ==
    /\ prog \in CheckedProgs
    /\ pc = "run"
    /\ LET e == Exec(stmts[at], locals, out) IN
         /\ locals' = e.locals
         /\ out' = e.out
    /\ IF at < Len(stmts)
       THEN /\ at' = at + 1
            /\ pc' = "run"
            /\ ret' = ret
       ELSE /\ at' = at
            /\ pc' = "returned"
            /\ ret' = Unit
    /\ UNCHANGED <<prog, build, arm, stack, heap, stmts, perms, moved, errors>>

(***************************************************************************)
(* The dice_roll matches (enums_and_patterns.rs, catch-all patterns): the  *)
(* patterns are the literals 3 and 7 and a last arm that matches every     *)
(* value, so a roll of 3 or 7 fits two arms.                               *)
(***************************************************************************)
Lit(n) == [kind |-> "lit", val |-> n]
Bind == [kind |-> "bind", val |-> 0]      \* other
Wild == [kind |-> "wild", val |-> 0]      \* _

\* A literal pattern matches the value equal to it; a variable and _ match
\* every value.
MatchesU8(pat, v) == pat.kind = "lit" => pat.val = v

\* A call of one of the functions without bodies; they return ().
Call(f, args) == [fn |-> f, args |-> args]
NoCall == Call("", << >>)

\* The arm's code, run with the value the pattern binds.
DiceCode(a, v) ==
    IF a.pat.kind = "bind" THEN Call(a.fn, << v >>) ELSE Call(a.fn, << >>)

\* The first dice_roll match with its catch-all arm put first.
dice_roll_arms_catch_all_first ==
    << [pat |-> Bind,   fn |-> "move_player"],
       [pat |-> Lit(3), fn |-> "add_fancy_hat"],
       [pat |-> Lit(7), fn |-> "remove_fancy_hat"] >>

\* match dice_roll { 3 => add_fancy_hat(), 7 => remove_fancy_hat(),
\*                   other => move_player(other), }
dice_roll_arms ==
    << [pat |-> Lit(3), fn |-> "add_fancy_hat"],
       [pat |-> Lit(7), fn |-> "remove_fancy_hat"],
       [pat |-> Bind,   fn |-> "move_player"] >>

\* ... _ => reroll(),
dice_roll_reroll_arms ==
    << [pat |-> Lit(3), fn |-> "add_fancy_hat"],
       [pat |-> Lit(7), fn |-> "remove_fancy_hat"],
       [pat |-> Wild,   fn |-> "reroll"] >>

\* ... _ => (),
dice_roll_unit_arms ==
    << [pat |-> Lit(3), fn |-> "add_fancy_hat"],
       [pat |-> Lit(7), fn |-> "remove_fancy_hat"],
       [pat |-> Wild,   fn |-> ""] >>

DiceProgs == {"dice_roll", "dice_roll_reroll", "dice_roll_unit"}

DiceArms(p) ==
    CASE p = "dice_roll" -> dice_roll_arms
      [] p = "dice_roll_reroll" -> dice_roll_reroll_arms
      [] OTHER -> dice_roll_unit_arms

\* The rolls tried: the source's 9, the two literals and the ends of u8.
DiceRolls == {0, 3, 7, 9, 255}

InitDice ==
    /\ prog \in DiceProgs
    /\ pc = "match"
    /\ build \in Builds
    /\ locals \in {[dice_roll |-> n, called |-> NoCall] : n \in DiceRolls}
    /\ arm = 1
    /\ ret = NoValue
    /\ out = << >>
    /\ stack = << >>
    /\ heap = EmptyHeap
    /\ NoChecker

\* One comparison of a dice_roll match: the roll is compared with the pattern of
\* arm `arm`; on a match the arm's code runs and its value, (), is the value of
\* the match, otherwise the next arm is compared.
MatchDice ==
    /\ prog \in DiceProgs
    /\ pc = "match"
    /\ arm <= Len(DiceArms(prog))
    /\ LET a == DiceArms(prog)[arm] IN
         IF MatchesU8(a.pat, locals.dice_roll)
         THEN /\ locals' = [locals EXCEPT !.called = DiceCode(a, locals.dice_roll)]
              /\ ret' = Unit
              /\ pc' = "returned"
              /\ arm' = arm
         ELSE /\ arm' = arm + 1
              /\ UNCHANGED <<locals, ret, pc>>
    /\ UNCHANGED <<prog, build, out, stack, heap, checker>>

(***************************************************************************)
(* plus_one (enums_and_patterns.rs, second definition): its match has the  *)
(* single arm Some(i) => Some(i + 1).  The compiler checks that the arms   *)
(* of a match cover every variant before the function can run.             *)
(***************************************************************************)
\* enum Option<T> { None, Some(T) }
OptionVariants == {"None", "Some"}

\* The second plus_one with the None arm written.
plus_one2_arms_with_none ==
    << [pat |-> "Some", expr |-> "Some(i + 1)"],
       [pat |-> "None", expr |-> "None"] >>

\* match x { Some(i) => Some(i + 1), }
plus_one2_arms == << [pat |-> "Some", expr |-> "Some(i + 1)"] >>

\* The variants no arm covers.
Uncovered(arms, variants) ==
    {v \in variants : \A k \in 1..Len(arms) : arms[k].pat # v}

\* One step of the second plus_one: the exhaustiveness check (E0004 with the
\* variants not covered), and, for a match that passed it, one comparison.
PlusOne2Step(c, x, k, b) ==
    LET keep == [pc |-> c, arm |-> k, ret |-> NoValue, errors |-> {}, uncovered |-> {}]
    IN  IF c = "compile"
        THEN LET u == Uncovered(plus_one2_arms, OptionVariants) IN
               IF u = {}
               THEN [keep EXCEPT !.pc = "match"]
               ELSE [keep EXCEPT !.pc = "rejected", !.errors = {<<1, "E0004">>},
                                 !.uncovered = u]
        ELSE IF k > Len(plus_one2_arms)
        THEN [keep EXCEPT !.pc = "no_arm"]
        ELSE IF Matches(plus_one2_arms[k].pat, x)
        THEN LET v == ArmValue(plus_one2_arms[k], x, b) IN
               [keep EXCEPT !.pc = IF v.tag = "panic" THEN "panicked" ELSE "returned",
                            !.ret = v]
        ELSE [keep EXCEPT !.arm = k + 1]

InitPlusOne2 ==
    /\ prog = "plus_one_non_exhaustive"
    /\ pc = "compile"
    /\ build \in Builds
    /\ locals \in {[x |-> x, uncovered |-> {}] : x \in PlusOneArgs}
    /\ arm = 1
    /\ ret = NoValue
    /\ out = << >>
    /\ stack = << >>
    /\ heap = EmptyHeap
    /\ NoChecker

PlusOne2 ==
    /\ prog = "plus_one_non_exhaustive"
    /\ pc \in {"compile", "match"}
    /\ LET n == PlusOne2Step(pc, locals.x, arm, build) IN
         /\ pc' = n.pc
         /\ arm' = n.arm
         /\ ret' = n.ret
         /\ errors' = errors \cup n.errors
         /\ locals' = [locals EXCEPT !.uncovered = n.uncovered]
    /\ UNCHANGED <<prog, build, out, stack, heap, stmts, at, perms, moved>>

Init ==
    \/ InitCoin
    \/ InitPlusOne
    \/ InitArea
    \/ InitCanHold
    \/ InitSetToMax
    \/ InitNamed
    \/ InitChecked
    \/ InitDice
    \/ InitPlusOne2

Next ==
    \/ MatchCoin
    \/ PlusOne
    \/ Area
    \/ CanHold
    \/ SetToMaxLet
    \/ SetToMaxAssign
    \/ SetToMaxCopy
    \/ NamedLetR1
    \/ NamedLetR2
    \/ NamedLetMax
    \/ NamedDrop
    \/ NamedAssign
    \/ NamedEndMain
    \/ BorrowCheck
    \/ Run
    \/ MatchDice
    \/ PlusOne2

Spec == Init /\ [][Next]_vars

(***************************************************************************)
(* The properties checked.                                                 *)
(***************************************************************************)

\* The cents of each coin, as the text gives them.
Cents(c) ==
    CASE c.tag = "Penny" -> 1
      [] c.tag = "Nickel" -> 5
      [] c.tag = "Dime" -> 10
      [] c.tag = "Quarter" -> 25

\* C1: for every Coin variant value_in_cents finds a matching arm and returns the
\* coin's value in cents: Penny 1, Nickel 5, Dime 10, Quarter 25.
C1_ValueInCents ==
    prog = "value_in_cents" =>
        /\ arm \in 1..Len(value_in_cents_arms)
        /\ pc = "returned" => ret = U8(Cents(locals.coin)) /\ out = << >>

C1_Witness ==
    /\ prog = "value_in_cents"
    /\ pc = "returned"
    /\ locals.coin = Variant("Quarter")
    /\ arm = 4
    /\ ret = U8(25)

\* C2: value_in_cents2 called with Penny prints "Lucky penny!" and returns 1;
\* called with Nickel, Dime or Quarter it returns 5, 10 or 25 and prints nothing.
C2_LuckyPenny ==
    prog = "value_in_cents2" /\ pc = "returned" =>
        /\ ret = U8(Cents(locals.coin))
        /\ out = IF locals.coin = Variant("Penny") THEN << "Lucky penny!" >> ELSE << >>

\* C3: a call of plus_one performs nothing but its match (it makes no further
\* call and does not fail) and returns None for None and Some(i + 1) for Some(i),
\* for the i whose successor is an i32.
C3_PlusOne ==
    prog = "plus_one" /\ (locals.x.tag = "Some" => locals.x.val < I32Max) =>
        /\ Len(stack) <= 1
        /\ pc \in {"running", "returned"}
        /\ pc = "returned" =>
              IF locals.x.tag = "None" THEN ret = None_
              ELSE ret = Some(locals.x.val + 1)

RECURSIVE ToNat(_)
ToNat(l) == IF l = << >> THEN 0 ELSE Head(l) + Base * ToNat(Tail(l))

Small(l) == l[Limbs] < Base \div 2

\* C5 as stated: for every u32 width and height, area returns the mathematical
\* product width * height.
C5_AreaIsProduct ==
    prog = "area" /\ pc # "call" =>
        /\ ret.tag = "u32"
        /\ ret.limbs \o Zero = MulWide(locals.width, locals.height)

\* C5 amended: when width * height is below 2^32 area returns the product (1500
\* for 30 and 50); otherwise the multiplication overflows: with overflow checks
\* the call panics, without them it returns the product modulo 2^32.
C5_AreaNoOverflow ==
    prog = "area" /\ pc # "call" =>
        LET w == locals.width
            h == locals.height
            p == MulWide(w, h)
        IN  IF High(p) = Zero
            THEN /\ pc = "returned"
                 /\ ret = U32Val(Low(p))
                 /\ Small(w) /\ Small(h) /\ Small(Low(p)) =>
                       ToNat(ret.limbs) = ToNat(w) * ToNat(h)
                 /\ w = U32(30) /\ h = U32(50) => ret = U32Val(U32(1500))
            ELSE IF build = "debug"
                 THEN pc = "panicked" /\ ret.tag = "panic"
                 ELSE pc = "returned" /\ ret = U32Val(Low(p))

C5_Witness ==
    /\ prog = "area"
    /\ pc = "returned"
    /\ locals.width = U32(30)
    /\ locals.height = U32(50)
    /\ ret = U32Val(U32(1500))

\* C6: in the simulated run of r1.set_to_max(r2) on the Rectangle that owns a
\* name, self.max(other) has consumed both rectangles and deallocated both
\* strings when it returns, and drop(*self) then frees r1.name a second time.
C6_DoubleFree ==
    prog = "main_set_to_max_named" =>
        /\ pc = "drop" =>
              /\ locals.max.name = "max" /\ heap["max"].live
              /\ ~heap["r1"].live /\ heap["r1"].frees = 1
              /\ ~heap["r2"].live /\ heap["r2"].frees = 1
        /\ pc \in DoubleFreeOutcomes => heap["r1"].frees = 2

C6_Witness ==
    /\ prog = "main_set_to_max_named"
    /\ pc \in DoubleFreeOutcomes
    /\ locals.d1 = Rect(9, 9)
    /\ locals.d2 = Rect(16, 16)
    /\ locals.max = NamedRect(16, 16, "max")
    /\ heap["r1"].frees = 2

\* The statements the borrow checker has gone through.
Checked == IF pc = "check" THEN 1..(at - 1) ELSE 1..Len(stmts)

Rejected(i) == \E e \in errors : e[1] = i

\* rect.max(..) stands before statement i.
MovedBefore(i) == \E k \in 1..(i - 1) : stmts[k] = "max"

\* C7: an owned, immutable rect has R and O; rect.area() and, while rect is
\* neither moved nor borrowed, rect.max(other_rect) are allowed; once
\* rect.max(..) was called rect has no permissions, and every later use of rect
\* is rejected with E0382 (borrow or use of moved value).
C7_MoveLosesPermissions ==
    prog = "methods" =>
        /\ pc = "check" /\ at = 2 /\ ~IsMut(stmts) => perms["rect"] = {"R", "O"}
        /\ pc = "check" /\ MovedBefore(at) => perms["rect"] = {}
        /\ \A i \in Checked :
              /\ stmts[i] = "area" => (Rejected(i) <=> MovedBefore(i))
              /\ stmts[i] = "max" /\ ~MovedBefore(i) /\ ~Declared(prog, stmts, i)
                    => ~Rejected(i)
              /\ stmts[i] \in {"area", "set_width", "max", "ref"} /\ MovedBefore(i)
                    => <<i, "E0382">> \in errors
        /\ stmts = <<"let rect", "area", "max">> /\ pc # "check"
              => pc \in {"run", "returned"}
        /\ stmts = <<"let rect", "max", "area">> /\ pc # "check"
              => pc = "rejected" /\ errors = {<<3, "E0382">>}

C7_Witness ==
    /\ prog = "methods"
    /\ stmts = <<"let rect", "max", "area">>
    /\ pc = "rejected"
    /\ perms["rect"] = {}
    /\ errors = {<<3, "E0382">>}

\* One borrow-check step on a call of set_width: whether it is rejected, against
\* the W permission of the place it is called through.
C8_Step ==
    prog = "methods" /\ pc = "check" /\ stmts[at] \in {"set_width", "ref_set_width"} =>
        LET place == IF stmts[at] = "set_width" THEN "rect" ELSE "*rect_ref"
            rejected == \E e \in errors' : e[1] = at
        IN  /\ rejected <=> "W" \notin perms[place]
            /\ stmts[at] = "set_width" /\ ~IsMut(stmts) => rejected
            /\ stmts[at] = "set_width" /\ IsMut(stmts)
                  /\ "rect" \notin moved /\ ~Live(prog, stmts, at) => ~rejected
            /\ stmts[at] = "ref_set_width" => <<at, "E0596">> \in errors'
            /\ rejected /\ pc' # "check" => pc' = "rejected"

\* C8: a call of set_width is accepted only through a place that has the W
\* permission: rect.set_width is rejected when rect is not declared mut and
\* accepted when it is (and rect is neither moved nor borrowed), and
\* rect_ref.set_width is rejected with E0596 whether or not rect is mut.
C8_SetWidthNeedsWrite == [][C8_Step]_vars

C8_Witness ==
    /\ prog = "methods"
    /\ stmts = <<"let mut rect", "set_width", "ref", "ref_set_width">>
    /\ pc = "rejected"
    /\ errors = {<<4, "E0596">>}

\* The number of *x += 1 among the first i statements.
RECURSIVE Incs(_)
Incs(i) == IF i = 0 THEN 0 ELSE Incs(i - 1) + (IF stmts[i] = "inc_x" THEN 1 ELSE 0)

\* The statements that print the point, among the first i.
Prints(i) == {k \in 1..i : stmts[k] \in {"print_point", "print_fields"}}

\* C9: while p.x is mutably borrowed p and p.x have no permissions and p.y keeps
\* its own; a read of p, or of p.x, while the borrow is live is rejected; a
\* snippet whose reads come after the last use of x is accepted, and its reads
\* see p.x as incremented so far and p.y = 0: 1 and 0 after one *x += 1.
C9_FieldBorrow ==
    prog = "point" =>
        /\ pc = "check" /\ at >= 2 /\ Live(prog, stmts, at) =>
              perms["p"] = {} /\ perms["p.x"] = {} /\ perms["p.y"] = RWO
        /\ \A i \in Checked :
              stmts[i] \in {"print_point", "print_fields"} =>
                  (<<i, "E0502">> \in errors <=>
                      \E k \in 1..(i - 1) : \E j \in (i + 1)..Len(stmts) :
                          /\ stmts[k] = "borrow_x"
                          /\ stmts[j] = "inc_x"
                          /\ \A m \in (i + 1)..(j - 1) : stmts[m] # "borrow_x")
        /\ pc = "returned" =>
              /\ Len(out) = Cardinality(Prints(Len(stmts)))
              /\ \A k \in Prints(Len(stmts)) :
                    out[Cardinality(Prints(k))] = <<Incs(k), 0>>
        /\ stmts = <<"let mut p", "borrow_x", "inc_x", "print_fields">> /\ pc # "check"
              => pc \in {"run", "returned"}
        /\ stmts = <<"let mut p", "borrow_x", "print_point", "inc_x">> /\ pc # "check"
              => pc = "rejected" /\ errors = {<<3, "E0502">>}

C9_Witness ==
    /\ prog = "point"
    /\ stmts = <<"let mut p", "borrow_x", "inc_x", "print_fields">>
    /\ pc = "returned"
    /\ locals.p = [x |-> 1, y |-> 0]
    /\ out = << <<1, 0>> >>

\* C10: for a Rectangle without heap data set_to_max leaves rect with the larger
\* of the two widths and the larger of the two heights, and touches no heap;
\* 0x1 with 1x0 gives 1x1.
C10_SetToMax ==
    prog \in SetToMaxProgs =>
        /\ heap = EmptyHeap
        /\ pc \in {"call", "assign", "returned"}
        /\ pc = "returned" =>
              LET a == locals.lit
                  b == locals.other
                  r == locals.self
              IN  /\ r.width >= a.width /\ r.width >= b.width
                  /\ r.width \in {a.width, b.width}
                  /\ r.height >= a.height /\ r.height >= b.height
                  /\ r.height \in {a.height, b.height}
                  /\ a = Rect(0, 1) /\ b = Rect(1, 0) => r = Rect(1, 1)

C10_Witness ==
    /\ prog = "set_to_max"
    /\ pc = "returned"
    /\ locals.lit = Rect(0, 1)
    /\ locals.other = Rect(1, 0)
    /\ locals.self = Rect(1, 1)

\* The pattern of arm k of the running match fits the matched value: a variant
\* pattern fits the values of that variant, a literal the value equal to it, a
\* variable and _ every value.
Fits(k) ==
    IF prog \in CoinProgs
    THEN locals.coin.tag = CoinArms(prog)[k].pat
    ELSE LET q == DiceArms(prog)[k].pat
         IN  q.kind \in {"bind", "wild"} \/ q.val = locals.dice_roll

\* The value of arm k's code: the cents (or () after printing), or the call made.
CodeRan(k) ==
    IF prog \in CoinProgs
    THEN ret = CoinArms(prog)[k].val /\ out = CoinArms(prog)[k].print
    ELSE /\ ret = Unit
         /\ locals.called.fn = DiceArms(prog)[k].fn

\* While a match runs every arm before the one compared did not fit; when it is
\* over the arm it stopped at is the first that fits and its code gave the
\* result; a roll of 3 gets a hat, 7 loses one, any other roll moves the player.
C11_Inv ==
    /\ prog \in CoinProgs \cup DiceProgs =>
          /\ \A k \in 1..(arm - 1) : ~Fits(k)
          /\ pc = "match" => ret = NoValue /\ out = << >>
          /\ pc = "returned" => Fits(arm) /\ CodeRan(arm)
    /\ prog = "dice_roll" /\ pc = "returned" =>
          locals.called =
              CASE locals.dice_roll = 3 -> Call("add_fancy_hat", << >>)
                [] locals.dice_roll = 7 -> Call("remove_fancy_hat", << >>)
                [] OTHER -> Call("move_player", << locals.dice_roll >>)
    /\ prog = "plus_one" =>
          \A n \in 1..Len(stack) :
              LET f == stack[n] IN
                /\ \A k \in 1..(f.arm - 1) : plus_one_arms[k].pat # f.x.tag
                /\ f.pc # "match" => plus_one_arms[f.arm].pat = f.x.tag
                                     /\ f.m.tag = f.x.tag

\* A comparison moves to the next arm exactly when the arm compared does not fit,
\* and after an arm has fitted no arm is compared again.
C11_Step ==
    prog \in CoinProgs \cup DiceProgs =>
        /\ pc = "match" => IF Fits(arm) THEN arm' = arm /\ pc' = "returned"
                           ELSE arm' = arm + 1 /\ pc' = "match"
        /\ pc = "returned" => arm' = arm /\ pc' = "returned"

\* C11: a matched value is compared with the pattern of each arm in order; the
\* code of the first arm whose pattern matches is run and gives the value of the
\* match, and once an arm has matched no other arm is compared.
C11_FirstArmWins == [](C11_Inv) /\ [][C11_Step]_vars

C11_Witness ==
    /\ prog = "dice_roll"
    /\ pc = "returned"
    /\ locals.dice_roll = 3
    /\ arm = 1
    /\ locals.called = Call("add_fancy_hat", << >>)

\* C12: the second plus_one has no arm that matches None, so it is rejected as
\* non-exhaustive (E0004, `None` not covered) and produces no result, for None
\* or for any other argument; the first plus_one covers both variants.
C12_NonExhaustive ==
    /\ prog = "plus_one_non_exhaustive" =>
          /\ \A k \in 1..Len(plus_one2_arms) : plus_one2_arms[k].pat # "None"
          /\ pc \in {"compile", "rejected"}
          /\ ret = NoValue
          /\ pc = "rejected" =>
                errors = {<<1, "E0004">>} /\ locals.uncovered = {"None"}
    /\ prog = "plus_one" => Uncovered(plus_one_arms, OptionVariants) = {}

C12_Witness ==
    /\ prog = "plus_one_non_exhaustive"
    /\ locals.x = None_
    /\ pc = "rejected"
    /\ locals.uncovered = {"None"}
    /\ errors = {<<1, "E0004">>}
    /\ ret = NoValue

\* C13: every function is straight-line and terminates: no call recurses, so the
\* call stack never holds a second frame and is never exhausted.
C13_StraightLine ==
    /\ \A n \in 1..Len(stack) : n = 1
    /\ pc # "stack_overflow"
====
